---- MODULE Spec2Model ----
(***************************************************************************)
(* Docker IP Retrieval (dip): a model of the CLI in docker-ip-retrieval.js *)
(* (the version built on src/utils.js and src/ui.js) and of the exported   *)
(* helpers of src/utils.js.                                                *)
(*                                                                         *)
(* JavaScript strings that the code takes apart (container names, the      *)
(* output of the in-container command) are tuples of one-character         *)
(* strings; Str turns such a tuple into the text that is displayed.        *)
(* The container engine, the geolocation service and the user are the      *)
(* environment: every answer they can give is a nondeterministic choice    *)
(* of the step that awaits it.                                             *)
(***************************************************************************)
EXTENDS Integers, Sequences, FiniteSets, TLC

VARIABLES
    entry,          \* "main": the CLI was started; "getContainerStatus": the export was called
    args,           \* process.argv.slice(2), as the set of flags given
    pc,             \* where main() stands
    exitCode,       \* NotExited, or the exit code of the process
    printed,        \* what console.log / console.error wrote, in order
    listing,        \* docker.listContainers({all: true}): Names[0] of each container;
                    \* the container at position i has Id ContainerId(i)
    containerMap,   \* the name -> id object, as its entries in enumeration order
    picked,         \* index of the choice the user took in the prompt (0: none yet)
    selected,       \* the value the prompt returned
    ids,            \* the ids getContainerStatus was started for, in call order
    pipes,          \* one record per started getContainerStatus call
    results,        \* the rows handed to showResults
    portCursor,     \* listContainerPorts: index of the entry being fetched
    portRows,       \* listContainerPorts: portRows so far
    shown,          \* which table was printed: "none", "results" or "ports"
    portData,       \* listContainerPorts: what each getContainerPorts call got from the engine
    calls           \* main's ping, list and prompt calls, and how ping and list ended

vars == <<entry, args, pc, exitCode, printed, listing, containerMap, picked,
          selected, ids, pipes, results, portCursor, portRows, shown, portData, calls>>

-----------------------------------------------------------------------------
(* Bounds *)

MaxContainers == 3      \* containers the engine lists
MaxOutLen == 7          \* characters the in-container command writes

-----------------------------------------------------------------------------
(* Values *)

NotExited == 0 - 1          \* the process has not exited
Undefined == "undefined"    \* containerMap[selected] for a key the object lacks
Null == <<"null">>          \* getPublicIP's null

Digits == {"0", "1", "2", "3", "4", "5", "6", "7", "8", "9"}

DigitVal(c) ==
    CASE c = "0" -> 0 [] c = "1" -> 1 [] c = "2" -> 2 [] c = "3" -> 3
      [] c = "4" -> 4 [] c = "5" -> 5 [] c = "6" -> 6 [] c = "7" -> 7
      [] c = "8" -> 8 [] c = "9" -> 9

RECURSIVE Str(_)
Str(s) == IF s = <<>> THEN "" ELSE Head(s) \o Str(Tail(s))

RECURSIVE NumVal(_)
NumVal(s) == IF s = <<>> THEN 0 ELSE 10 * NumVal(SubSeq(s, 1, Len(s) - 1)) + DigitVal(s[Len(s)])

ContainerId(i) == "c" \o ToString(i)

\* Names[0] as the engine reports it; <<>> is a container listed without a name.
NoName == <<>>
RawNames == { NoName,
              <<"/", "w", "e", "b">>,
              <<"/", "A", "l", "l">>,
              <<"/", "7">> }

All == <<"A", "l", "l">>
UnknownKey == <<"U", "n", "k", "n", "o", "w", "n">>

VersionFlags == {"-v", "--version"}
PortsFlags == {"-p", "--ports"}

-----------------------------------------------------------------------------
(* String.prototype.replace("/", ""): removes the first "/" only *)

StripSlash(s) ==
    IF \E i \in 1..Len(s) : s[i] = "/"
    THEN LET i == CHOOSE j \in 1..Len(s) : s[j] = "/" /\ \A k \in 1..(j - 1) : s[k] # "/"
         IN  SubSeq(s, 1, i - 1) \o SubSeq(s, i + 1, Len(s))
    ELSE s

-----------------------------------------------------------------------------
(* A JavaScript object with string keys, as the sequence of its entries in *)
(* the order Object.keys / Object.values / Object.entries enumerate them:  *)
(* integer-like keys first, ascending, then the others as first created.   *)

IsArrayIndex(k) ==
    /\ Len(k) >= 1
    /\ \A i \in 1..Len(k) : k[i] \in Digits
    /\ (Len(k) = 1 \/ k[1] # "0")
    /\ Len(k) <= 9

HasKey(obj, k) == \E j \in 1..Len(obj) : obj[j].key = k

ObjGet(obj, k) ==
    IF HasKey(obj, k)
    THEN obj[CHOOSE j \in 1..Len(obj) : obj[j].key = k].value
    ELSE Undefined

ObjSet(obj, k, v) ==
    IF HasKey(obj, k)
    THEN LET j == CHOOSE i \in 1..Len(obj) : obj[i].key = k
         IN  [obj EXCEPT ![j].value = v]
    ELSE IF IsArrayIndex(k)
    THEN LET before == Cardinality({ j \in 1..Len(obj) :
                           IsArrayIndex(obj[j].key) /\ NumVal(obj[j].key) < NumVal(k) })
         IN  SubSeq(obj, 1, before) \o <<[key |-> k, value |-> v]>>
                \o SubSeq(obj, before + 1, Len(obj))
    ELSE Append(obj, [key |-> k, value |-> v])

RECURSIVE FromEntries(_)
FromEntries(entries) ==
    IF entries = <<>> THEN <<>>
    ELSE LET last == entries[Len(entries)]
         IN  ObjSet(FromEntries(SubSeq(entries, 1, Len(entries) - 1)), last[1], last[2])

Keys(obj) == [j \in 1..Len(obj) |-> obj[j].key]
Values(obj) == [j \in 1..Len(obj) |-> obj[j].value]

\* Names?.[0]?.replace("/", "") || "Unknown"
MapKey(raw) == IF StripSlash(raw) = <<>> THEN UnknownKey ELSE StripSlash(raw)

\* getContainerMap, given what listContainers returned
getContainerMap(containers) ==
    FromEntries([i \in 1..Len(containers) |-> <<MapKey(containers[i]), ContainerId(i)>>])

\* getContainerChoices: the value of each choice (its name is the same text)
getContainerChoices(map) == <<All>> \o Keys(map)

-----------------------------------------------------------------------------
(* The engine's and the services' answers *)

ContainerStates == {"running", "exited", "paused", "restarting", "created", "removing", "dead"}

\* container.inspect(): it fails, or gives State.Running and State.Status
\* (up: the Status values that come with Running true; down: with Running false)
InspectAnswers(up, down) ==
    {[ok |-> FALSE, Running |-> FALSE, Status |-> ""]}
        \cup [ok : {TRUE}, Running : {TRUE}, Status : up]
        \cup [ok : {TRUE}, Running : {FALSE}, Status : down]

UpStates == {"running", "paused"}
DownStates == ContainerStates \ {"running"}

\* container.inspect().Os, as getContainerOsType reads it: <<>> is an absent field
OsValues == { <<"l", "i", "n", "u", "x">>, <<"W", "i", "n", "d", "o", "w", "s">>, <<>> }
OsAnswers(values) == {[ok |-> FALSE, Os |-> <<>>]} \cup [ok : {TRUE}, Os : values]

\* what the in-container command can write: digits, dots, letters, blanks and
\* bytes outside the printable range
Control == {"\n"}
Whitespace == {" ", "\n"}
Alphabet == {"7", ".", "e", " "}
ExitCodes == {0, 1}

RECURSIVE StringsUpTo(_, _)
StringsUpTo(A, n) ==
    IF n = 0 THEN {<<>>}
    ELSE LET shorter == StringsUpTo(A, n - 1)
         IN  shorter \cup { Append(s, c) : s \in { t \in shorter : Len(t) = n - 1 }, c \in A }

\* exec + stream + exec.inspect(): it fails, or gives the raw stream and ExitCode
ExecAnswers(outputs) ==
    {[ok |-> FALSE, raw |-> <<>>, ExitCode |-> 1]}
        \cup [ok : {TRUE}, raw : outputs, ExitCode : ExitCodes]

\* curl's output as the attached stream delivers it, a non-printable byte included
FramedOutput == <<"\n", "7", ".", "7", ".", "7", ".", "7", "\n">>

AllOutputs == StringsUpTo(Alphabet, MaxOutLen) \cup {FramedOutput}

NoState == [Running |-> FALSE, Status |-> ""]                           \* not inspected yet
NoGeo == [ok |-> FALSE, status |-> "none", country |-> "", city |-> ""]  \* not looked up yet

\* fetch + response.json(): a transport or parse error, or the JSON body
GeoAnswers ==
    { [ok |-> FALSE, status |-> "", country |-> "", city |-> ""],
      [ok |-> TRUE, status |-> "fail", country |-> "undefined", city |-> "undefined"],
      [ok |-> TRUE, status |-> "success", country |-> "US", city |-> "Ashburn"],
      [ok |-> TRUE, status |-> "success", country |-> "", city |-> ""] }

\* the answers drawn in a run of the whole CLI
CliUpStates == {"running"}
CliDownStates == {"exited"}
CliOsValues == { <<"l", "i", "n", "u", "x">>, <<>> }
CliOutputs == {FramedOutput}
CliGeoAnswers == { g \in GeoAnswers : ~g.ok \/ g.status = "fail" \/ g.country = "US" }

-----------------------------------------------------------------------------
(* src/utils.js *)

Lower(c) == CASE c = "W" -> "w" [] c = "A" -> "a" [] c = "U" -> "u" [] OTHER -> c
toLowerCase(s) == [i \in 1..Len(s) |-> Lower(s[i])]

includes(s, sub) ==
    \E i \in 0..(Len(s) - Len(sub)) : SubSeq(s, i + 1, i + Len(sub)) = sub

\* output.replace(/[^ -~]+/g, "")
RECURSIVE StripControl(_)
StripControl(s) ==
    IF s = <<>> THEN <<>>
    ELSE IF Head(s) \in Control THEN StripControl(Tail(s))
    ELSE <<Head(s)>> \o StripControl(Tail(s))

\* String.prototype.trim
RECURSIVE TrimStart(_)
TrimStart(s) == IF s # <<>> /\ Head(s) \in Whitespace THEN TrimStart(Tail(s)) ELSE s

RECURSIVE TrimEnd(_)
TrimEnd(s) ==
    IF s # <<>> /\ s[Len(s)] \in Whitespace THEN TrimEnd(SubSeq(s, 1, Len(s) - 1)) ELSE s

trim(s) == TrimEnd(TrimStart(s))

\* runCommand's return value for a stream that ended
CommandOutput(raw) == trim(StripControl(raw))

\* the test with the anchors left out: /[0-9.]+/.test(s)
MatchesIpUnanchored(s) == \E i \in 1..Len(s) : s[i] \in Digits \cup {"."}

\* /^[0-9.]+$/.test(s)
MatchesIpPattern(s) == Len(s) >= 1 /\ \A i \in 1..Len(s) : s[i] \in Digits \cup {"."}

\* getPublicIP with the exit code left unchecked
PublicIpIgnoringExitCode(output, code) ==
    IF MatchesIpPattern(trim(output)) THEN trim(output) ELSE Null

\* getPublicIP, from runCommand's return value
PublicIpOf(output, code) ==
    IF code = 0 /\ MatchesIpPattern(trim(output)) THEN trim(output) ELSE Null

\* getContainerOsType's return value: containerData?.Os?.toLowerCase?.() || "linux"
OsTypeOf(os) == IF toLowerCase(os) = <<>> THEN <<"l", "i", "n", "u", "x">> ELSE toLowerCase(os)

ShellCmd == <<"sh", "-c", "curl -s https://api.ipify.org">>
SplitCmd == <<"curl", "-s", "https://api.ipify.org">>

\* the command vector getPublicIP picks
CommandFor(osType) == IF includes(osType, <<"w", "i", "n">>) THEN SplitCmd ELSE ShellCmd

\* getLocation without the check of the service's "fail" status
LocationWithoutFailCheck(g) ==
    IF ~g.ok THEN "Lookup Failed" ELSE g.country \o ", " \o g.city

\* getLocation's return value
LocationOf(g) ==
    IF ~g.ok THEN "Lookup Failed"
    ELSE IF g.status = "fail" THEN "Unknown"
    ELSE g.country \o ", " \o g.city

\* getContainerStatus: containerData.Name ? containerData.Name.replace("/", "") : "Unknown Container"
DisplayName(raw) == IF raw = <<>> THEN "Unknown Container" ELSE Str(StripSlash(raw))

\* the Name the engine holds for a listed id
EngineName(id) == listing[CHOOSE i \in 1..Len(listing) : ContainerId(i) = id]

RECURSIVE join(_, _)
join(strs, sep) ==
    IF strs = <<>> THEN ""
    ELSE IF Len(strs) = 1 THEN strs[1]
    ELSE strs[1] \o sep \o join(Tail(strs), sep)

\* NetworkSettings.Ports as the engine reports it: per container port, its
\* bindings (<<>> stands for null and for an empty array)
PortsValues ==
    { <<>>,
      << [port |-> "443/tcp", bindings |-> <<>>] >>,
      << [port |-> "80/tcp", bindings |-> <<[HostIp |-> "0.0.0.0", HostPort |-> "8080"]>>] >>,
      << [port |-> "80/tcp", bindings |-> <<[HostIp |-> "0.0.0.0", HostPort |-> "8080"],
                                            [HostIp |-> "::", HostPort |-> "8080"]>>],
         [port |-> "443/tcp", bindings |-> <<>>] >> }
PortsAnswers == {[ok |-> FALSE, Ports |-> <<>>]} \cup [ok : {TRUE}, Ports : PortsValues]

\* the binding text with the two sides swapped
BindingTextSwapped(b, containerPort) == containerPort \o "->" \o b.HostIp \o ":" \o b.HostPort

BindingText(b, containerPort) == b.HostIp \o ":" \o b.HostPort \o "->" \o containerPort

\* getContainerPorts' return value: one text per container port that has bindings
RECURSIVE PortTexts(_)
PortTexts(ports) ==
    IF ports = <<>> THEN <<>>
    ELSE LET e == Head(ports)
             texts == [j \in 1..Len(e.bindings) |-> BindingText(e.bindings[j], e.port)]
         IN  (IF e.bindings = <<>> THEN <<>> ELSE <<join(texts, ", ")>>) \o PortTexts(Tail(ports))

EngineError == "no such container"

\* the row listContainerPorts pushes for one entry of the map
PortRow(name, id, a) ==
    IF a.ok
    THEN <<Str(name), IF Len(PortTexts(a.Ports)) # 0 THEN join(PortTexts(a.Ports), "\n")
                      ELSE "No ports exposed">>
    ELSE <<Str(name), "Error retrieving ports (Failed to get ports for container "
                          \o id \o ": " \o EngineError \o ")">>

-----------------------------------------------------------------------------
(* One getContainerStatus(containerId) call: where it stands and what it holds *)

StatusError(id, inner) == "Failed to get status for container " \o id \o ": " \o inner

NewPipe(id) ==
    IF id = Undefined
    THEN [id |-> id, pc |-> "failed", name |-> "", state |-> NoState, cmd |-> <<>>,
          code |-> NotExited, out |-> <<>>, ip |-> Null, geo |-> NoGeo, row |-> <<>>,
          inspects |-> 0, execs |-> 0, lookups |-> 0,
          error |-> "Invalid containerId provided to getContainerStatus"]
    ELSE [id |-> id, pc |-> "inspect", name |-> "", state |-> NoState, cmd |-> <<>>,
          code |-> NotExited, out |-> <<>>, ip |-> Null, geo |-> NoGeo, row |-> <<>>,
          inspects |-> 1, execs |-> 0, lookups |-> 0, error |-> ""]

\* the short-circuit taken for an exited container only
AfterInspectExitedOnly(p, a) ==
    IF ~a.ok
    THEN [p EXCEPT !.pc = "failed", !.error = StatusError(p.id, EngineError)]
    ELSE IF a.Status = "exited"
    THEN [p EXCEPT !.pc = "done", !.name = DisplayName(EngineName(p.id)),
                   !.state = [Running |-> a.Running, Status |-> a.Status],
                   !.row = <<DisplayName(EngineName(p.id)), "Container " \o a.Status, "Unknown">>]
    ELSE [p EXCEPT !.pc = "osType", !.name = DisplayName(EngineName(p.id)),
                   !.state = [Running |-> a.Running, Status |-> a.Status], !.inspects = 2]

\* lines 134-140: the inspect answer arrives
AfterInspect(p, a) ==
    IF ~a.ok
    THEN [p EXCEPT !.pc = "failed", !.error = StatusError(p.id, EngineError)]
    ELSE IF ~a.Running
    THEN [p EXCEPT !.pc = "done", !.name = DisplayName(EngineName(p.id)),
                   !.state = [Running |-> a.Running, Status |-> a.Status],
                   !.row = <<DisplayName(EngineName(p.id)), "Container " \o a.Status, "Unknown">>]
    ELSE [p EXCEPT !.pc = "osType", !.name = DisplayName(EngineName(p.id)),
                   !.state = [Running |-> a.Running, Status |-> a.Status], !.inspects = 2]

\* line 165: getContainerOsType's inspect answer arrives; lines 166-170 issue the exec
AfterOsType(p, a) ==
    IF ~a.ok
    THEN [p EXCEPT !.pc = "failed",
                   !.error = StatusError(p.id, "Failed to get OS type for container "
                                                   \o p.id \o ": " \o EngineError)]
    ELSE [p EXCEPT !.pc = "exec", !.cmd = CommandFor(OsTypeOf(a.Os)), !.execs = 1]

\* the row of a running container whose getPublicIP call returned ip (lines 142-146)
SecondField(ip) == IF ip = Null THEN "Retrieval failed" ELSE Str(ip)
Truthy(ip) == ip # Null /\ ip # <<>>

\* lines 170-174 and 141-146: the exec answer arrives
AfterExec(p, a) ==
    IF ~a.ok
    THEN [p EXCEPT !.pc = "failed", !.cmd = <<>>,
                   !.error = StatusError(p.id, "Failed to run command in container "
                                                   \o p.id \o ": " \o EngineError)]
    ELSE LET out == CommandOutput(a.raw)
             ip == PublicIpOf(out, a.ExitCode)
         IN  IF Truthy(ip)
             THEN [p EXCEPT !.pc = "location", !.cmd = <<>>, !.code = a.ExitCode,
                            !.out = out, !.ip = ip, !.lookups = 1]
             ELSE [p EXCEPT !.pc = "done", !.cmd = <<>>, !.code = a.ExitCode,
                            !.out = out, !.ip = ip,
                            !.row = <<p.name, SecondField(ip), "Unknown">>]

\* lines 142-146: getLocation returned
AfterLocation(p, g) ==
    [p EXCEPT !.pc = "done", !.geo = g, !.row = <<p.name, SecondField(p.ip), LocationOf(g)>>]

-----------------------------------------------------------------------------
(* The state after construction *)

NoCalls == [ping |-> 0, alive |-> "unknown", list |-> 0, listed |-> "unknown", prompt |-> 0]

\* the CLI was started with some flags; main() has not run yet
Init ==
    /\ entry = "main"
    /\ args \in SUBSET (VersionFlags \cup PortsFlags)
    /\ pc = "start"
    /\ exitCode = NotExited
    /\ printed = <<>>
    /\ listing = <<>>
    /\ containerMap = <<>>
    /\ picked = 0
    /\ selected = <<>>
    /\ ids = <<>>
    /\ pipes = <<>>
    /\ results = <<>>
    /\ portCursor = 0
    /\ portRows = <<>>
    /\ shown = "none"
    /\ portData = <<>>
    /\ calls = NoCalls

\* getContainerStatus(containerId) was called for a container the engine holds
InitStatus ==
    /\ entry = "getContainerStatus"
    /\ args = {}
    /\ pc = "status"
    /\ exitCode = NotExited
    /\ printed = <<>>
    /\ listing \in [1..1 -> RawNames]
    /\ containerMap = <<>>
    /\ picked = 0
    /\ selected = <<>>
    /\ ids = <<ContainerId(1)>>
    /\ pipes = <<NewPipe(ContainerId(1))>>
    /\ results = <<>>
    /\ portCursor = 0
    /\ portRows = <<>>
    /\ shown = "none"
    /\ portData = <<>>
    /\ calls = NoCalls

-----------------------------------------------------------------------------
(* docker-ip-retrieval.js *)

Exit(code, message) ==
    /\ pc' = "exited"
    /\ exitCode' = code
    /\ printed' = Append(printed, message)

\* What the callers of getContainerStatus do once the calls stand as ps:
\* Promise.all / await in getSelectedContainerResults (lines 181-188), then
\* main's showResults or catch (lines 218-223).
Settle(ps) ==
    /\ pipes' = ps
    /\ IF entry = "getContainerStatus"
       THEN /\ pc' = (IF ps[1].pc = "failed" THEN "rejected"
                      ELSE IF ps[1].pc = "done" THEN "resolved" ELSE pc)
            /\ UNCHANGED <<exitCode, printed, results, shown>>
       ELSE IF \E i \in 1..Len(ps) : ps[i].pc = "failed"
       THEN LET i == CHOOSE j \in 1..Len(ps) : ps[j].pc = "failed"
            IN  /\ Exit(1, (IF selected = All THEN "Unexpected error: " ELSE "Prompt failed: ")
                               \o ps[i].error)
                /\ UNCHANGED <<results, shown>>
       ELSE IF \A i \in 1..Len(ps) : ps[i].pc = "done"
       THEN /\ results' = [i \in 1..Len(ps) |-> ps[i].row]
            /\ shown' = "results"
            /\ Exit(0, "results table")
       ELSE UNCHANGED <<pc, exitCode, printed, results, shown>>

\* main, lines 195-204, up to the await of docker.ping()
Start ==
    /\ pc = "start"
    /\ IF args \cap VersionFlags # {}
       THEN /\ Exit(0, "Docker IP Retrieval version: 1.2.0")
            /\ UNCHANGED calls
       ELSE /\ pc' = "probe"
            /\ calls' = [calls EXCEPT !.ping = 1]
            /\ UNCHANGED <<exitCode, printed>>
    /\ UNCHANGED <<entry, args, listing, containerMap, picked, selected, ids, pipes,
                   results, portCursor, portRows, shown, portData>>

\* main without the process.exit(1) of line 203
ProbeWithoutExit ==
    /\ pc = "probe"
    /\ \E up \in BOOLEAN :
         /\ pc' = "list"
         /\ calls' = [calls EXCEPT !.alive = (IF up THEN "yes" ELSE "no"), !.list = 1]
         /\ printed' = (IF up THEN printed
                        ELSE Append(printed, "Docker is not running or not detected. Please ensure Docker is installed and running."))
         /\ UNCHANGED exitCode
    /\ UNCHANGED <<entry, args, listing, containerMap, picked, selected, ids, pipes,
                   results, portCursor, portRows, shown, portData>>

\* isDockerRunning returned; main, lines 201-207, up to the await of listContainers
Probe ==
    /\ pc = "probe"
    /\ \E up \in BOOLEAN :
         IF ~up
         THEN /\ Exit(1, "Docker is not running or not detected. Please ensure Docker is installed and running.")
              /\ calls' = [calls EXCEPT !.alive = "no"]
         ELSE /\ pc' = "list"
              /\ calls' = [calls EXCEPT !.alive = "yes", !.list = 1]
              /\ UNCHANGED <<exitCode, printed>>
    /\ UNCHANGED <<entry, args, listing, containerMap, picked, selected, ids, pipes,
                   results, portCursor, portRows, shown, portData>>

Listings == UNION { [1..n -> RawNames] : n \in 0..MaxContainers }

\* getContainerMap returned or threw; main, lines 207-218, and the first lines
\* of listContainerPorts or of getSelectedContainerResults
List ==
    /\ pc = "list"
    /\ \E ok \in BOOLEAN, cs \in Listings :
         IF ~ok
         THEN /\ cs = <<>>
              /\ Exit(1, "Unexpected error: Failed to list Docker containers: connect ENOENT")
              /\ calls' = [calls EXCEPT !.listed = "no"]
              /\ UNCHANGED <<listing, containerMap, portCursor>>
         ELSE /\ listing' = cs
              /\ containerMap' = getContainerMap(cs)
              /\ IF Len(Keys(getContainerMap(cs))) = 0
                 THEN /\ Exit(0, "No Docker containers found.")
                      /\ calls' = [calls EXCEPT !.listed = "yes"]
                      /\ UNCHANGED portCursor
                 ELSE IF args \cap PortsFlags # {}
                 THEN /\ pc' = "ports"
                      /\ portCursor' = 1
                      /\ calls' = [calls EXCEPT !.listed = "yes"]
                      /\ UNCHANGED <<exitCode, printed>>
                 ELSE /\ pc' = "prompt"
                      /\ calls' = [calls EXCEPT !.listed = "yes", !.prompt = 1]
                      /\ UNCHANGED <<exitCode, printed, portCursor>>
    /\ UNCHANGED <<entry, args, picked, selected, ids, pipes, results, portRows, shown,
                   portData>>

\* listContainerPorts, lines 158-169: one turn of the loop, and showPortsTable
\* after the last
PortsStep ==
    /\ pc = "ports"
    /\ \E a \in PortsAnswers :
         LET e == containerMap[portCursor]
             rows == Append(portRows, PortRow(e.key, e.value, a))
         IN  /\ portRows' = rows
             /\ portData' = Append(portData, a)
             /\ IF portCursor = Len(containerMap)
                THEN /\ shown' = "ports"
                     /\ Exit(0, "ports table")
                     /\ UNCHANGED portCursor
                ELSE /\ portCursor' = portCursor + 1
                     /\ UNCHANGED <<shown, pc, exitCode, printed>>
    /\ UNCHANGED <<entry, args, listing, containerMap, picked, selected, ids, pipes,
                   results, calls>>

\* promptContainer settled; getSelectedContainerResults, lines 179-188
Prompt ==
    /\ pc = "prompt"
    /\ \E c \in 0..Len(getContainerChoices(containerMap)) :
         IF c = 0
         THEN /\ Exit(1, "Prompt failed: cancelled")
              /\ UNCHANGED <<picked, selected, ids, pipes, results, shown>>
         ELSE LET value == getContainerChoices(containerMap)[c]
                  started == IF value = All THEN Values(containerMap)
                             ELSE <<ObjGet(containerMap, value)>>
              IN  /\ picked' = c
                  /\ selected' = value
                  /\ ids' = started
                  /\ IF \E i \in 1..Len(started) : started[i] = Undefined
                     THEN Settle([i \in 1..Len(started) |-> NewPipe(started[i])])
                     ELSE /\ pipes' = [i \in 1..Len(started) |-> NewPipe(started[i])]
                          /\ pc' = "status"
                          /\ UNCHANGED <<exitCode, printed, results, shown>>
    /\ UNCHANGED <<entry, args, listing, containerMap, portCursor, portRows, portData,
                   calls>>

-----------------------------------------------------------------------------
(* The steps of the started getContainerStatus calls, in any interleaving *)

Waiting(i, at) == pc = "status" /\ i \in 1..Len(pipes) /\ pipes[i].pc = at

Frame == UNCHANGED <<entry, args, listing, containerMap, picked, selected, ids,
                     portCursor, portRows, portData, calls>>

InspectStep(i, up, down) ==
    /\ Waiting(i, "inspect")
    /\ \E a \in InspectAnswers(up, down) : Settle([pipes EXCEPT ![i] = AfterInspect(pipes[i], a)])
    /\ Frame

OsTypeStep(i, values) ==
    /\ Waiting(i, "osType")
    /\ \E a \in OsAnswers(values) : Settle([pipes EXCEPT ![i] = AfterOsType(pipes[i], a)])
    /\ Frame

ExecStep(i, outputs) ==
    /\ Waiting(i, "exec")
    /\ \E a \in ExecAnswers(outputs) : Settle([pipes EXCEPT ![i] = AfterExec(pipes[i], a)])
    /\ Frame

LocationStep(i, answers) ==
    /\ Waiting(i, "location")
    /\ \E g \in answers : Settle([pipes EXCEPT ![i] = AfterLocation(pipes[i], g)])
    /\ Frame

\* a run of the CLI
CliInspect == \E i \in 1..Len(pipes) : InspectStep(i, CliUpStates, CliDownStates)
CliOsType == \E i \in 1..Len(pipes) : OsTypeStep(i, CliOsValues)
CliExec == \E i \in 1..Len(pipes) : ExecStep(i, CliOutputs)
CliLocation == \E i \in 1..Len(pipes) : LocationStep(i, CliGeoAnswers)

Next ==
    \/ Start
    \/ Probe
    \/ List
    \/ PortsStep
    \/ Prompt
    \/ CliInspect
    \/ CliOsType
    \/ CliExec
    \/ CliLocation

Spec == Init /\ [][Next]_vars

\* one getContainerStatus call, against every answer within the bounds
StatusInspect == InspectStep(1, UpStates, DownStates)
StatusOsType == OsTypeStep(1, OsValues)
StatusExec == ExecStep(1, AllOutputs)
StatusLocation == LocationStep(1, GeoAnswers)

NextStatus ==
    \/ StatusInspect
    \/ StatusOsType
    \/ StatusExec
    \/ StatusLocation

SpecStatus == InitStatus /\ [][NextStatus]_vars

-----------------------------------------------------------------------------
(* Vocabulary of the properties *)

Pipes == { pipes[i] : i \in 1..Len(pipes) }

Inspected(p) == p.state # NoState
ExecReturned(p) == p.code # NotExited
LookedUp(p) == p.geo # NoGeo

DotCount(s) == Cardinality({ i \in 1..Len(s) : s[i] = "." })

\* digit groups separated by exactly three dots
IsDottedQuad(s) ==
    /\ Len(s) >= 1
    /\ \A i \in 1..Len(s) : s[i] \in Digits \/ s[i] = "."
    /\ DotCount(s) = 3
    /\ s[1] # "." /\ s[Len(s)] # "."
    /\ \A i \in 1..(Len(s) - 1) : ~(s[i] = "." /\ s[i + 1] = ".")

\* a non-empty text of digits and dots, in any arrangement
DigitsAndDots(s) == s # <<>> /\ { s[i] : i \in 1..Len(s) } \subseteq (Digits \cup {"."})

IsRealPlace(location) == location \notin {"Unknown", "Lookup Failed"}

FailedRow(p) == <<DisplayName(EngineName(p.id)), "Retrieval failed", "Unknown">>

-----------------------------------------------------------------------------
(* Properties of getContainerStatus, checked under SpecStatus *)

\* C1: once a call has inspected its container and State.Running was false, the
\* call has returned the row (name, "Container " + State.Status, "Unknown") and has
\* issued no exec call and no geolocation call, whatever State.Status is.
C1_NotRunningShortCircuit ==
    \A p \in Pipes :
        (Inspected(p) /\ ~p.state.Running) =>
            /\ p.pc = "done"
            /\ p.row = <<DisplayName(EngineName(p.id)), "Container " \o p.state.Status, "Unknown">>
            /\ p.execs = 0
            /\ p.lookups = 0

C1_Witness ==
    \E p \in Pipes :
        /\ p.state = [Running |-> FALSE, Status |-> "paused"]
        /\ p.pc = "done"
        /\ p.row[2] = "Container paused"

\* C2 as stated: for a running container whose command returned, a non-zero exit
\* code or an output that is not digit groups separated by exactly three dots
\* gives null, the row (name, "Retrieval failed", "Unknown") and no geolocation
\* call; an output is the IP only with exit code 0 and that structure.
C2_AsStated ==
    \A p \in Pipes :
        ExecReturned(p) =>
            /\ (p.code # 0 \/ ~IsDottedQuad(trim(p.out))) =>
                   (p.ip = Null /\ p.pc = "done" /\ p.row = FailedRow(p) /\ p.lookups = 0)
            /\ p.ip # Null => (p.code = 0 /\ IsDottedQuad(trim(p.out)) /\ p.ip = trim(p.out))

\* C2 as amended: the same with "a non-empty text of digits and dots" in place of
\* "digit groups separated by exactly three dots".
C2_DigitsAndDotsOnly ==
    \A p \in Pipes :
        ExecReturned(p) =>
            /\ (p.code # 0 \/ ~DigitsAndDots(trim(p.out))) =>
                   (p.ip = Null /\ p.pc = "done" /\ p.row = FailedRow(p) /\ p.lookups = 0)
            /\ p.ip # Null => (p.code = 0 /\ DigitsAndDots(trim(p.out)) /\ p.ip = trim(p.out))

C2_Witness ==
    \E p \in Pipes :
        /\ p.state.Running
        /\ p.code = 0
        /\ p.out = <<"7", ".", "e">>
        /\ p.row = FailedRow(p)

\* C5: a call that got an IP never fails afterwards, and once its lookup has
\* answered it has returned (name, IP, location), where location is "Lookup Failed"
\* after a transport or parse error, "Unknown" for status "fail", and
\* "<country>, <city>" for any other body.
C5_LookupNeverFailsRow ==
    \A p \in Pipes :
        /\ p.ip # Null => p.pc \in {"location", "done"}
        /\ LookedUp(p) =>
               /\ p.pc = "done"
               /\ p.row[1] = DisplayName(EngineName(p.id))
               /\ p.row[2] = Str(p.ip)
               /\ ~p.geo.ok => p.row[3] = "Lookup Failed"
               /\ (p.geo.ok /\ p.geo.status = "fail") => p.row[3] = "Unknown"
               /\ (p.geo.ok /\ p.geo.status # "fail") =>
                      p.row[3] = p.geo.country \o ", " \o p.geo.city

C5_Witness ==
    \E p \in Pipes :
        /\ LookedUp(p)
        /\ p.geo.ok /\ p.geo.status = "fail"
        /\ p.row = <<"web", "7.7.7.7", "Unknown">>

\* C6 as stated: a returned row whose location is a real place has a dotted quad
\* (digit groups separated by exactly three dots) as its second field; a row whose
\* second field is "Container <state>" or "Retrieval failed" has location "Unknown".
C6_AsStated ==
    \A p \in Pipes :
        p.pc = "done" =>
            /\ IsRealPlace(p.row[3]) => (p.row[2] = Str(p.ip) /\ IsDottedQuad(p.ip))
            /\ (p.row[2] = "Retrieval failed" \/ p.row[2] \in { "Container " \o st : st \in ContainerStates })
                   => p.row[3] = "Unknown"

\* C6 as amended: a returned row whose location is a real place has a non-empty
\* text of digits and dots as its second field; a row whose second field is
\* "Container <state>" or "Retrieval failed" has location "Unknown".
C6_PlaceOnlyWithDigitsAndDots ==
    \A p \in Pipes :
        p.pc = "done" =>
            /\ IsRealPlace(p.row[3]) => (p.row[2] = Str(p.ip) /\ p.ip # Null /\ DigitsAndDots(p.ip))
            /\ (p.row[2] = "Retrieval failed" \/ p.row[2] \in { "Container " \o st : st \in ContainerStates })
                   => p.row[3] = "Unknown"

C6_Witness ==
    \E p \in Pipes :
        /\ p.pc = "done"
        /\ p.row[3] = "US, Ashburn"
        /\ p.row[2] = "7.7"

-----------------------------------------------------------------------------
(* Properties of a run of the CLI, checked under Spec *)

ListedIds == [i \in 1..Len(listing) |-> ContainerId(i)]
PortsMode == args \cap PortsFlags # {}
VersionMode == args \cap VersionFlags # {}
PromptAnswered == picked # 0

\* C3 as stated: in a batch over three listed containers in which one call's exec
\* throws and no other call fails, the other two calls return their rows and the
\* run ends with three rows rendered, in listing order.
C3_AsStated ==
    \A b \in 1..Len(pipes) :
        ( /\ pc = "exited"
          /\ picked = 1
          /\ Len(listing) = 3
          /\ ids = ListedIds
          /\ pipes[b].pc = "failed" /\ pipes[b].execs = 1
          /\ \A a \in 1..Len(pipes) : a # b => pipes[a].pc # "failed" )
        => ( /\ shown = "results"
             /\ Len(results) = 3
             /\ \A a \in 1..Len(pipes) : a # b =>
                    (pipes[a].pc = "done" /\ results[a] = pipes[a].row) )

\* C4 as stated: a call whose inspect or exec failed does not raise: it returns a
\* row whose second field is "Retrieval failed", and the run goes on to render.
C4_AsStated ==
    \A p \in Pipes :
        p.error # "" =>
            /\ p.pc = "done"
            /\ p.row[2] = "Retrieval failed"
            /\ exitCode # 1

\* C7 as stated: after the user chose "All", one call runs per listed container, in
\* listing order; the table is rendered only when every call has returned, and it
\* has one row per listed container, in listing order.
C7_AsStated ==
    (PromptAnswered /\ picked = 1) =>
        /\ ids = ListedIds
        /\ shown = "results" =>
               /\ \A p \in Pipes : p.pc = "done"
               /\ Len(results) = Len(listing)
               /\ \A i \in 1..Len(results) : results[i][1] = DisplayName(listing[i])

\* C10 as stated: the prompt offers, for every listed container, a choice carrying
\* its display name that selects this container; and after the user took a
\* container's choice exactly one call runs, for the container selected, and the
\* table has exactly one row.
C10_AsStated ==
    /\ pc = "prompt" =>
           \A i \in 1..Len(listing) :
               \E c \in 2..Len(getContainerChoices(containerMap)) :
                   /\ getContainerChoices(containerMap)[c] = MapKey(listing[i])
                   /\ ObjGet(containerMap, getContainerChoices(containerMap)[c]) = ContainerId(i)
    /\ picked >= 2 =>
           /\ Len(ids) = 1
           /\ MapKey(EngineName(ids[1])) = selected
           /\ shown = "results" => Len(results) = 1

\* C8: before the probe has answered nothing else is called; after a failed probe
\* the process has printed a message and exited non-zero without a list, inspect,
\* exec or prompt call; after a good probe and an empty listing it has exited with
\* code 0 without a prompt.
C8_ProbeFirst ==
    /\ calls.alive = "unknown" =>
           (calls.list = 0 /\ calls.prompt = 0 /\ pipes = <<>> /\ portData = <<>>)
    /\ calls.alive = "no" =>
           /\ pc = "exited" /\ exitCode # 0 /\ exitCode # NotExited
           /\ Len(printed) = 1
           /\ calls.list = 0 /\ calls.prompt = 0
           /\ pipes = <<>> /\ portData = <<>>
    /\ (calls.alive = "yes" /\ calls.listed = "yes" /\ listing = <<>>) =>
           /\ pc = "exited" /\ exitCode = 0
           /\ calls.prompt = 0 /\ pipes = <<>>

C8_Witness ==
    /\ ~VersionMode
    /\ calls.ping = 1
    /\ calls.alive = "no"
    /\ exitCode = 1

\* C9: with -p or --ports the prompt is never shown; the run ends with the port
\* table printed, one row per entry of the name-to-id map in the map's order; a row
\* shows "<hostIp>:<hostPort>-><containerPort>" per binding, "No ports exposed"
\* without bindings, and the error text when the fetch failed.
C9_PortsTable ==
    PortsMode =>
        /\ calls.prompt = 0 /\ picked = 0 /\ pipes = <<>>
        /\ (pc = "exited" /\ calls.listed = "yes" /\ listing # <<>>) => shown = "ports"
        /\ shown = "ports" => (Len(portRows) = Len(containerMap) /\ exitCode = 0)
        /\ Len(portRows) = Len(portData)
        /\ \A k \in 1..Len(portRows) :
               LET a == portData[k]
                   cell == portRows[k][2]
               IN  /\ portRows[k][1] = Str(containerMap[k].key)
                   /\ ~a.ok => cell = "Error retrieving ports (Failed to get ports for container "
                                          \o containerMap[k].value \o ": no such container)"
                   /\ (a.ok /\ \A j \in 1..Len(a.Ports) : a.Ports[j].bindings = <<>>)
                          => cell = "No ports exposed"
                   /\ (a.ok /\ Len(a.Ports) = 1 /\ a.Ports # <<>> /\ a.Ports[1].bindings # <<>>)
                          => cell = "0.0.0.0:8080->80/tcp"
                   /\ (a.ok /\ Len(a.Ports) = 2)
                          => cell = "0.0.0.0:8080->80/tcp, :::8080->80/tcp"

C9_Witness ==
    /\ shown = "ports"
    /\ Len(portRows) = 3
    /\ ~portData[2].ok
    /\ portRows[1] = <<"web", "0.0.0.0:8080->80/tcp">>
    /\ portRows[3][2] = "No ports exposed"

====
